---------------------------- MODULE Spec2Model ----------------------------
(***************************************************************************)
(* A model of duende's rendering core: the shader / program cache          *)
(* (drawables.rs), the change-tracked cell (utils/mut_cell.rs), the        *)
(* deferred command queue (common/drawables.rs), the per-frame             *)
(* application context (application_context.rs), the id-only program      *)
(* cache (common/wrappers/program_wrapper.rs) with the drawable built on   *)
(* it (three_d/game_objects/test_game_object.rs), and the winit handlers   *)
(* that drive a frame (internal/internal_game_loop.rs).                    *)
(*                                                                         *)
(* The GL driver is the environment: it hands out object names, accepts or *)
(* rejects a source, and keeps the set of live objects; a new object gets   *)
(* the lowest name not in use, so a deleted object's name is reused at     *)
(* once.  A shader object deleted while attached to a program stays until  *)
(* the program is deleted.  Every GL call an operation issues is appended  *)
(* to gl_calls, the log of the last operation.                             *)
(*                                                                         *)
(* The Game::game_loop callback is user code: the calls it makes on the    *)
(* context are the actions between two AboutToWait steps, and AboutToWait  *)
(* is the handler from the return of the callback on.                      *)
(***************************************************************************)
EXTENDS Integers, Sequences, FiniteSets, TLC

(***************************************************************************)
(* Bounds of the model.                                                    *)
(***************************************************************************)
\* Free-standing ShaderHandles (clones included) a user holds per shader.
MaxHandles == 2
\* Deferred operations recorded between two flushes.
MaxQueue == 3
\* set_background_color calls counted between two flushes (saturating).
SetsCap == 2
\* Shader object names the driver hands out.
NumShaderNames == 6
\* Exit and cursor requests pending between two pop_all_commands.
MaxPending == 3
\* Exit and cursor requests game_loop makes in one tick.
TickPending == 1
\* Calls of Game::teardown in a run.
MaxTeardowns == 3

\* Shader objects a run may lose.
MaxLeaks == 2

\* Largest width of a resize notification.
MaxDim == 2

(***************************************************************************)
(* The static shaders of the program and the drawables built over them.    *)
(*  *_ok sources compile, *_bad sources are rejected by the driver.        *)
(***************************************************************************)
VertexShaders == {"v_ok", "v_bad"}

FragmentShaders == {"f_ok", "f_bad"}

\* A vertex source with a NUL byte in it.
NulShaders == {"v_nul"}

Shaders == VertexShaders \cup FragmentShaders \cup NulShaders

GameObjects == {"g1", "g2"}

\* The drawables of three_d/game_objects, built over the id-only cache.
ThreeDObjects == {"t1", "t2"}

ShaderNames == 1..NumShaderNames

ProgramNames == 1..(Cardinality(GameObjects) + Cardinality(ThreeDObjects))

\* Names of vertex array objects and of buffer objects: one of each per drawable.
ArrayNames == 1..Cardinality(ThreeDObjects)

Keys == {"Escape", "Enter"}

\* Arguments of set_background_color: four u8 components.
Colors == {<<0, 0, 0, 255>>, <<255, 128, 0, 255>>}

CustomOps == {"A", "B"}

NoSrc == "none"

VARIABLES
    \* ---- shader / program cache (drawables.rs)
    instance,       \* Shader::instance, the AtomicU32 behind the Arc
    free_handles,   \* ShaderHandles held by user code, per shader
    program,        \* ProgramWrapper::program, the OnceCell, per drawable
    w_shaders,      \* ProgramWrapper::{vertex_shader, fragment_shader}
    \* ---- the id-only cache (common/wrappers/program_wrapper.rs)
    program_id,     \* ProgramWrapper::program_id, the OnceCell, per drawable
    vao_ref,        \* ProgramWrapper::vao_ref, 0 while the cell is empty
    vbo_ref,        \* ProgramWrapper::vbo_ref, 0 while the cell is empty
    pw_shaders,     \* ProgramWrapper::{vertex_shader, fragment_shader}
    \* ---- the GL driver
    gl_shaders,     \* name -> source of the live shader object, or NoSrc
    gl_programs,    \* names of the live program objects
    gl_attached,    \* program name -> names of the shader objects attached to it
    gl_flagged,     \* shader objects deleted while attached
    gl_vertex_arrays, \* names of the vertex array objects
    gl_buffers,     \* names of the buffer objects
    gl_error,       \* a delete was issued on a name that is not live
    link_ok,        \* whether the driver links v_ok with f_ok
    \* ---- ApplicationContext (application_context.rs)
    input_events,
    output_commands,
    background_color,
    command_queue,
    exit_status,
    \* ---- InnerApplication, the event loop and the window (internal_game_loop.rs)
    exit_state,     \* InnerApplication::exit_state, what render returns
    teardowns,      \* calls of Game::teardown
    loop_exit,      \* event_loop.exit() was called
    returned,       \* run_app returned
    cursor_grab,    \* the window's CursorGrabMode
    cursor_visible,
    context,        \* InnerApplication::context is Some
    state,          \* InnerApplication::state is Some: window, surface, GL context
    viewport,       \* width and height of the latest gl::Viewport
    steps,          \* what the latest about_to_wait did, in order
    panicked,       \* the assertion of resumed failed
    \* ---- callers of get_shader_handle that run concurrently
    callers,        \* per caller: where it is in get_shader_handle, on which shader,
                    \* and its local shader_id
    overlapped,     \* an operation on a shader began while a call was in progress
    \* ---- what the last operation was, returned and issued
    last_call,
    ret,            \* for a tick, what its flush returned
    gl_calls,
    stores,         \* the stores into Shader::instance: source, old and new id
    taken,          \* what the last pop_all_commands returned
    \* ---- history
    w_compiles,     \* compile attempts of a live drawable's cache, per shader
    w_links,        \* link attempts of a live drawable's cache
    noted,          \* keys add_event was called with
    pending_sets,   \* set_background_color calls since the last flush that ran
    latest_set,     \* argument of the latest set_background_color
    flushed,        \* a flush has run to completion
    coalesced,      \* set calls the last flush absorbed
    requests,       \* exit / cursor requests made since the last pop_all_commands
    frame_failed,   \* a record returned an error since the last flush was called
    replaced,       \* exit_status as the latest draw_game_object of the frame found it
    stale           \* the flush of the latest tick left operations in the queue

cacheVars == <<instance, free_handles, program, w_shaders>>

pwVars == <<program_id, vao_ref, vbo_ref, pw_shaders>>

glVars == <<gl_shaders, gl_programs, gl_attached, gl_flagged, gl_vertex_arrays, gl_buffers,
            gl_error, link_ok>>

ctxVars == <<input_events, output_commands, background_color, command_queue, exit_status>>

raceVars == <<callers, overlapped>>

drvVars == <<exit_state, teardowns, loop_exit, returned, cursor_grab, cursor_visible,
            context, state, viewport, steps, panicked>>

obsVars == <<last_call, ret, gl_calls, stores, taken>>

cacheHist == <<w_compiles, w_links>>

ctxHist == <<noted, pending_sets, latest_set, flushed, coalesced, requests, frame_failed,
            replaced, stale>>

vars == <<cacheVars, pwVars, glVars, ctxVars, drvVars, raceVars, obsVars, cacheHist, ctxHist>>

\* What an operation on the shader cache or on the context leaves alone.
appVars == <<pwVars, drvVars, raceVars, taken>>

(***************************************************************************)
(* Values.                                                                 *)
(***************************************************************************)
NoError == [kind |-> "none", msg |-> ""]

\* GlError::ShaderCompile(String)
ShaderCompile(msg) == [kind |-> "ShaderCompile", msg |-> msg]

\* GlError::ProgramLink(String)
ProgramLink(msg) == [kind |-> "ProgramLink", msg |-> msg]

Ok(v) == [ok |-> TRUE, val |-> v, err |-> NoError]

Err(e) == [ok |-> FALSE, val |-> 0, err |-> e]

NoColor == <<>>

GlCall(call, src, id) == [call |-> call, src |-> src, id |-> id, color |-> NoColor]

Call(op, obj) == [op |-> op, obj |-> obj, color |-> NoColor]

\* What CString::new(source) failing is mapped to; the ? returns it.
NulByte == ShaderCompile("shader must not contain a null byte")

\* The driver's verdict on a source and the info log it reports; a rejected source
\* always comes with a non-empty log.
CompileOk(s) == s \in {"v_ok", "f_ok"}

ShaderInfoLog(s) == "cannot compile " \o s

ProgramInfoLog(v, f) == "cannot link " \o v \o " " \o f

Kind(s) == IF s \in VertexShaders \cup NulShaders THEN "VERTEX_SHADER" ELSE "FRAGMENT_SHADER"

CountCalls(calls, call, src) ==
    Cardinality({i \in 1..Len(calls) : calls[i].call = call /\ calls[i].src = src})

(***************************************************************************)
(* The shader cache.  An operation threads a record G through the calls it *)
(* makes: the stored ids, the driver's objects, the number of handles      *)
(* alive per shader (Arc::strong_count is one more) and the GL calls       *)
(* issued so far.                                                          *)
(***************************************************************************)
Owners(s) == {w \in GameObjects : program[w].st = "linked" /\ s \in w_shaders[w]}

\* ShaderHandles alive outside the cache: the user's and the Programs'.
Holders(s) == free_handles[s] + Cardinality(Owners(s))

GpuState ==
    [inst |-> instance, shaders |-> gl_shaders, programs |-> gl_programs,
     attached |-> gl_attached, flagged |-> gl_flagged,
     arrays |-> gl_vertex_arrays, buffers |-> gl_buffers,
     held |-> [s \in Shaders |-> Holders(s)], calls |-> <<>>, stores |-> <<>>,
     err |-> gl_error]

StrongCount(G, s) == 1 + G.held[s]

\* The driver hands out the lowest name that is not in use.
Lowest(F) == {n \in F : \A m \in F : n <= m}

FreeShaderNames(G) == Lowest({n \in ShaderNames : G.shaders[n] = NoSrc})

FreeProgramNames(G) == Lowest(ProgramNames \ G.programs)

Log(G, c) == [G EXCEPT !.calls = Append(@, c)]

\* gl::DeleteShader: frees a live object, or flags it while a program has it
\* attached; 0 is ignored, any other name is an error.
gl_DeleteShader(G, id) ==
    LET live == id \in ShaderNames /\ G.shaders[id] # NoSrc
        G1 == Log(G, GlCall("DeleteShader", IF live THEN G.shaders[id] ELSE NoSrc, id))
    IN  IF live
        THEN IF \E p \in G.programs : id \in G.attached[p]
             THEN [G1 EXCEPT !.flagged = @ \cup {id}]
             ELSE [G1 EXCEPT !.shaders[id] = NoSrc]
        ELSE [G1 EXCEPT !.err = @ \/ id # 0]

\* gl::DeleteProgram: the shaders are detached, and a flagged one attached nowhere
\* else goes with the program.
gl_DeleteProgram(G, id) ==
    LET G1 == Log(G, GlCall("DeleteProgram", "", id))
        freed == {n \in G.flagged : \A p \in G.programs \ {id} : n \notin G.attached[p]}
    IN  IF id \in G.programs
        THEN [G1 EXCEPT !.programs = @ \ {id},
                        !.attached[id] = {},
                        !.flagged = @ \ freed,
                        !.shaders = [n \in ShaderNames |-> IF n \in freed THEN NoSrc ELSE @[n]]]
        ELSE [G1 EXCEPT !.err = @ \/ id # 0]

\* compile_shader: n is the name gl::CreateShader returns.
compile_shader(G, s, n) ==
    LET G0 == Log([G EXCEPT !.shaders[n] = s], GlCall("CreateShader", Kind(s), n))
        G1 == Log(G0, GlCall("CompileShader", s, n))
    IN  IF s \in NulShaders
        THEN [res |-> Err(NulByte), G |-> G0]
        ELSE IF CompileOk(s)
        THEN [res |-> Ok(n), G |-> G1]
        ELSE [res |-> Err(ShaderCompile(ShaderInfoLog(s))), G |-> gl_DeleteShader(G1, n)]

\* get_shader_handle without the sole-holder test: it compiles on every call.
SoleHolderIgnored(G, s) == TRUE

\* The sole-holder test of get_shader_handle.
SoleHolder(G, s) == StrongCount(G, s) = 1

\* A get_shader_handle that mints a handle although the compile failed.
get_shader_handle_mints_on_failure(G, s, n) ==
    IF SoleHolder(G, s)
    THEN LET c == compile_shader(G, s, n)
         IN  IF c.res.ok
             THEN [res |-> Ok(c.res.val),
                   G |-> [c.G EXCEPT !.inst[s] = c.res.val, !.held[s] = @ + 1,
                                     !.stores = Append(@, [src |-> s, old |-> G.inst[s],
                                                           new |-> c.res.val])]]
             ELSE [res |-> c.res, G |-> [c.G EXCEPT !.held[s] = @ + 1]]
    ELSE [res |-> Ok(G.inst[s]), G |-> [G EXCEPT !.held[s] = @ + 1]]

\* A get_shader_handle that compiles and does not store the new identifier.
get_shader_handle_without_store(G, s, n) ==
    IF SoleHolder(G, s)
    THEN LET c == compile_shader(G, s, n)
         IN  IF c.res.ok
             THEN [res |-> Ok(G.inst[s]), G |-> [c.G EXCEPT !.held[s] = @ + 1]]
             ELSE c
    ELSE [res |-> Ok(G.inst[s]), G |-> [G EXCEPT !.held[s] = @ + 1]]

\* Shader::get_shader_handle: on success one more handle is alive.
get_shader_handle(G, s, n) ==
    IF SoleHolder(G, s)
    THEN LET c == compile_shader(G, s, n)
         IN  IF c.res.ok
             THEN [res |-> Ok(c.res.val),
                   G |-> [c.G EXCEPT !.inst[s] = c.res.val, !.held[s] = @ + 1,
                                     !.stores = Append(@, [src |-> s, old |-> G.inst[s],
                                                           new |-> c.res.val])]]
             ELSE c
    ELSE [res |-> Ok(G.inst[s]), G |-> [G EXCEPT !.held[s] = @ + 1]]

\* The count at which a dropped handle deletes the shader object.
DropThreshold == 2

\* Drop for ShaderHandle testing the count as if the handle were already gone.
drop_handle_count_one(G, s) ==
    LET G1 == IF StrongCount(G, s) = 1
              THEN gl_DeleteShader(G, G.inst[s])
              ELSE G
    IN  [G1 EXCEPT !.held[s] = @ - 1]

\* Drop for ShaderHandle: the count still includes the handle being dropped.
drop_handle(G, s) ==
    LET G1 == IF StrongCount(G, s) = DropThreshold
              THEN gl_DeleteShader(G, G.inst[s])
              ELSE G
    IN  [G1 EXCEPT !.held[s] = @ - 1]

\* The driver links v_ok with f_ok when both attached names are their live objects.
LinkOk(G, v, f) ==
    /\ link_ok
    /\ G.inst[v] \in ShaderNames /\ G.shaders[G.inst[v]] = v /\ CompileOk(v)
    /\ G.inst[f] \in ShaderNames /\ G.shaders[G.inst[f]] = f /\ CompileOk(f)

\* A create_program that returns the link error and keeps the program object.
create_program_keeps_failed(G, v, f, n) ==
    LET G1 == Log(Log(Log(Log([G EXCEPT !.programs = @ \cup {n},
                                        !.attached[n] = {x \in {G.inst[v], G.inst[f]} :
                                                           x \in ShaderNames /\ G.shaders[x] # NoSrc}],
                              GlCall("CreateProgram", "", n)),
                          GlCall("AttachShader", v, G.inst[v])),
                      GlCall("AttachShader", f, G.inst[f])),
                  GlCall("LinkProgram", "", n))
    IN  IF LinkOk(G, v, f)
        THEN [res |-> Ok(n), G |-> G1]
        ELSE [res |-> Err(ProgramLink(ProgramInfoLog(v, f))), G |-> G1]

\* create_program: n is the name gl::CreateProgram returns.
create_program(G, v, f, n) ==
    LET G1 == Log(Log(Log(Log([G EXCEPT !.programs = @ \cup {n},
                                        !.attached[n] = {x \in {G.inst[v], G.inst[f]} :
                                                           x \in ShaderNames /\ G.shaders[x] # NoSrc}],
                              GlCall("CreateProgram", "", n)),
                          GlCall("AttachShader", v, G.inst[v])),
                      GlCall("AttachShader", f, G.inst[f])),
                  GlCall("LinkProgram", "", n))
    IN  IF LinkOk(G, v, f)
        THEN [res |-> Ok(n), G |-> G1]
        ELSE [res |-> Err(ProgramLink(ProgramInfoLog(v, f))), G |-> gl_DeleteProgram(G1, n)]

\* Program::new: owns both handles on success; on failure they are dropped,
\* the second parameter first.
Program_new(G, v, f, n) ==
    LET c == create_program(G, v, f, n)
    IN  IF c.res.ok
        THEN c
        ELSE [res |-> c.res, G |-> drop_handle(drop_handle(c.G, f), v)]

\* A drop that releases the handles and leaves the program object allocated.
drop_Program_keeps_object(G, id, v, f) == drop_handle(drop_handle(G, v), f)

\* Drop for Program deletes the program object; then the fields are dropped in
\* declaration order, the vertex handle first.
drop_Program(G, id, v, f) == drop_handle(drop_handle(gl_DeleteProgram(G, id), v), f)

VertexOf(w) == CHOOSE s \in w_shaders[w] : s \in VertexShaders

FragmentOf(w) == CHOOSE s \in w_shaders[w] : s \in FragmentShaders

NamesFor(G, s) == IF SoleHolder(G, s) THEN FreeShaderNames(G) ELSE {0}

\* The closure handed to get_or_init: every outcome the names the driver returns allow.
init_program(G, w) ==
    LET v == VertexOf(w)
        f == FragmentOf(w)
    IN  UNION {LET hv == get_shader_handle(G, v, nv)
               IN  IF ~hv.res.ok
                   THEN {hv}
                   ELSE UNION {LET hf == get_shader_handle(hv.G, f, nf)
                               IN  IF ~hf.res.ok
                                   THEN {[res |-> hf.res, G |-> drop_handle(hf.G, v)]}
                                   ELSE {Program_new(hf.G, v, f, np) :
                                           np \in FreeProgramNames(hf.G)}
                               : nf \in NamesFor(hv.G, f)}
               : nv \in NamesFor(G, v)}

\* A cell that runs the closure on every call.
CellNeverInitialized(w) == FALSE

\* A cell that runs the closure again after a failure.
CellRetriesFailure(w) == program[w].st = "linked"

\* OnceCell::get_or_init runs the closure only on an empty cell.
CellInitialized(w) == program[w].st # "uninit"

\* A cell that keeps only a success.
MemoOnlySuccess(res) ==
    IF res.ok
    THEN [st |-> "linked", id |-> res.val, err |-> NoError]
    ELSE [st |-> "uninit", id |-> 0, err |-> NoError]

\* What the OnceCell holds after the closure returned res.
Memo(res) ==
    IF res.ok
    THEN [st |-> "linked", id |-> res.val, err |-> NoError]
    ELSE [st |-> "failed", id |-> 0, err |-> res.err]

\* What get_program_id returns from an initialised cell.
Cached(cell) == IF cell.st = "linked" THEN Ok(cell.id) ELSE Err(cell.err)

\* ProgramWrapper::get_program_id: the result, the cell and the driver afterwards.
get_program_id(w) ==
    IF CellInitialized(w)
    THEN {[res |-> Cached(program[w]), G |-> GpuState, cell |-> program[w]]}
    ELSE {[res |-> Cached(Memo(o.res)), G |-> o.G, cell |-> Memo(o.res)] :
            o \in init_program(GpuState, w)}

TypeOK ==
    /\ instance \in [Shaders -> 0..NumShaderNames]
    /\ free_handles \in [Shaders -> 0..MaxHandles]
    /\ \A w \in GameObjects : program[w].st \in {"none", "uninit", "linked", "failed", "dropped"}
    /\ gl_shaders \in [ShaderNames -> Shaders \cup {NoSrc}]
    /\ gl_programs \subseteq ProgramNames
    /\ gl_flagged \subseteq ShaderNames
    /\ gl_error \in BOOLEAN
    /\ Len(command_queue) <= MaxQueue
    /\ Len(output_commands) <= MaxPending
    /\ teardowns \in 0..MaxTeardowns

NoCell == [st |-> "none", id |-> 0, err |-> NoError]

\* InternalColor::default(), components as fractions.
DefaultColor == <<<<1, 10>>, <<1, 10>>, <<1, 10>>, <<9, 10>>>>

U8Max == 255

\* red as f32 / u8::MAX as f32, per component.
Normalize(c) == [i \in 1..4 |-> <<c[i], U8Max>>]

\* A cell that starts clean.
MutCell_new_clean(v) == [value |-> v, has_changed |-> FALSE]

\* MutCell::new
MutCell_new(v) == [value |-> v, has_changed |-> TRUE]

\* Threads that call get_shader_handle.
Callers == {"c1", "c2"}

\* A caller outside get_shader_handle.
Idle == [pc |-> "idle", s |-> NoSrc, shader_id |-> 0]

\* The size of the window as it is created.
InitialSize == <<1, 1>>

\* The state at the start of a run; resumed tells whether InnerApplication::resumed
\* has already built the window state and the context.
Started(resumed) ==
    /\ context = resumed
    /\ state = resumed
    /\ viewport = InitialSize
    /\ steps = <<>>
    /\ panicked = FALSE
    /\ callers = [c \in Callers |-> Idle]
    /\ overlapped = FALSE
    /\ instance = [s \in Shaders |-> 0]
    /\ free_handles = [s \in Shaders |-> 0]
    /\ program = [w \in GameObjects |-> NoCell]
    /\ w_shaders = [w \in GameObjects |-> {}]
    /\ gl_shaders = [n \in ShaderNames |-> NoSrc]
    /\ gl_programs = {}
    /\ gl_attached = [p \in ProgramNames |-> {}]
    /\ gl_flagged = {}
    /\ gl_vertex_arrays = {}
    /\ gl_buffers = {}
    /\ gl_error = FALSE
    /\ link_ok \in BOOLEAN
    /\ program_id = [w \in ThreeDObjects |-> NoCell]
    /\ vao_ref = [w \in ThreeDObjects |-> 0]
    /\ vbo_ref = [w \in ThreeDObjects |-> 0]
    /\ pw_shaders = [w \in ThreeDObjects |-> {}]
    /\ input_events = {}
    /\ output_commands = <<>>
    /\ exit_state = Ok(0)
    /\ teardowns = 0
    /\ loop_exit = FALSE
    /\ returned = FALSE
    /\ cursor_grab = "None"
    /\ cursor_visible = TRUE
    /\ stores = <<>>
    /\ taken = <<>>
    /\ requests = <<>>
    /\ frame_failed = FALSE
    /\ replaced = Ok(0)
    /\ stale = FALSE
    /\ background_color = MutCell_new(DefaultColor)
    /\ command_queue = <<>>
    /\ exit_status = Ok(0)
    /\ last_call = Call("new", "")
    /\ ret = Ok(0)
    /\ gl_calls = <<>>
    /\ w_compiles = [w \in GameObjects |-> [s \in Shaders |-> 0]]
    /\ w_links = [w \in GameObjects |-> 0]
    /\ noted = {}
    /\ pending_sets = 0
    /\ latest_set = NoColor
    /\ flushed = FALSE
    /\ coalesced = 0

\* ApplicationContext::new, in a driver that has been resumed.
Init == Started(TRUE)

\* InnerApplication::new: neither window state nor context.
InitNew == Started(FALSE)

\* The driver's state and the stored ids after an operation that ended in G.
Commit(G) ==
    /\ instance' = G.inst
    /\ gl_shaders' = G.shaders
    /\ gl_programs' = G.programs
    /\ gl_attached' = G.attached
    /\ gl_flagged' = G.flagged
    /\ gl_vertex_arrays' = G.arrays
    /\ gl_buffers' = G.buffers
    /\ gl_error' = G.err
    /\ gl_calls' = G.calls
    /\ stores' = G.stores
    /\ UNCHANGED link_ok

\* The compile and link attempts of an operation, charged to drawable w.
Charge(w, calls) ==
    /\ w_compiles' = [w_compiles EXCEPT ![w] =
                        [s \in Shaders |-> @[s] + CountCalls(calls, "CompileShader", s)]]
    /\ w_links' = [w_links EXCEPT ![w] = @ + CountCalls(calls, "LinkProgram", "")]

(***************************************************************************)
(* Operations on the cache, called by user code.                           *)
(***************************************************************************)
\* Shader::get_shader_handle called directly; the handle stays with the caller.
GetShaderHandle(s) ==
    /\ free_handles[s] < MaxHandles
    /\ \E n \in NamesFor(GpuState, s) :
         LET h == get_shader_handle(GpuState, s, n)
         IN  /\ Commit(h.G)
             /\ ret' = h.res
             /\ free_handles' = [free_handles EXCEPT ![s] = h.G.held[s] - Cardinality(Owners(s))]
    /\ last_call' = Call("get_shader_handle", s)
    /\ UNCHANGED <<program, w_shaders, ctxVars, cacheHist, ctxHist, appVars>>

\* Callers inside get_shader_handle.
InFlight == {c \in Callers : callers[c].pc # "idle"}

\* get_shader_handle, statement by statement, for callers on several threads: the
\* test Arc::strong_count(&self.instance) == 1.
CallerChecks(c, s) ==
    /\ callers[c].pc = "idle"
    /\ callers' = [callers EXCEPT ![c] =
                     [pc |-> IF SoleHolder(GpuState, s) THEN "compile" ELSE "clone",
                      s |-> s, shader_id |-> 0]]
    /\ overlapped' = (overlapped \/ InFlight # {})
    /\ last_call' = Call("get_shader_handle: strong_count", c)
    /\ ret' = Ok(0)
    /\ gl_calls' = <<>>
    /\ stores' = <<>>
    /\ UNCHANGED <<cacheVars, pwVars, glVars, ctxVars, drvVars, taken, cacheHist, ctxHist>>

\* let shader_id = compile_shader(..)?: an error returns from the call.
CallerCompiles(c) ==
    /\ callers[c].pc = "compile"
    /\ \E n \in FreeShaderNames(GpuState) :
         LET r == compile_shader(GpuState, callers[c].s, n)
         IN  /\ Commit(r.G)
             /\ ret' = r.res
             /\ callers' = [callers EXCEPT ![c] =
                              IF r.res.ok THEN [@ EXCEPT !.pc = "store", !.shader_id = r.res.val]
                              ELSE Idle]
    /\ last_call' = Call("get_shader_handle: compile_shader", c)
    /\ UNCHANGED <<free_handles, program, w_shaders, pwVars, ctxVars, drvVars, overlapped,
                   taken, cacheHist, ctxHist>>

\* self.instance.store(shader_id, Ordering::Relaxed)
CallerStores(c) ==
    /\ callers[c].pc = "store"
    /\ instance' = [instance EXCEPT ![callers[c].s] = callers[c].shader_id]
    /\ stores' = <<[src |-> callers[c].s, old |-> instance[callers[c].s],
                    new |-> callers[c].shader_id]>>
    /\ callers' = [callers EXCEPT ![c].pc = "clone"]
    /\ last_call' = Call("get_shader_handle: store", c)
    /\ ret' = Ok(0)
    /\ gl_calls' = <<>>
    /\ UNCHANGED <<free_handles, program, w_shaders, pwVars, glVars, ctxVars, drvVars,
                   overlapped, taken, cacheHist, ctxHist>>

\* Ok(ShaderHandle { shader_id: Arc::clone(&self.instance), .. }): the handle stays
\* with the caller.
CallerClones(c) ==
    /\ callers[c].pc = "clone"
    /\ free_handles' = [free_handles EXCEPT ![callers[c].s] = @ + 1]
    /\ callers' = [callers EXCEPT ![c] = Idle]
    /\ last_call' = Call("get_shader_handle: clone", c)
    /\ ret' = Ok(instance[callers[c].s])
    /\ gl_calls' = <<>>
    /\ stores' = <<>>
    /\ UNCHANGED <<instance, program, w_shaders, pwVars, glVars, ctxVars, drvVars,
                   overlapped, taken, cacheHist, ctxHist>>

\* ShaderHandle::clone (derived): one more Arc on the same cell.
CloneHandle(s) ==
    /\ free_handles[s] >= 1
    /\ free_handles[s] < MaxHandles
    /\ free_handles' = [free_handles EXCEPT ![s] = @ + 1]
    /\ last_call' = Call("clone", s)
    /\ ret' = Ok(instance[s])
    /\ gl_calls' = <<>>
    /\ stores' = <<>>
    /\ UNCHANGED <<instance, program, w_shaders, glVars, ctxVars, cacheHist, ctxHist, appVars>>

\* A handle held by user code goes out of scope.
DropHandle(s) ==
    /\ free_handles[s] >= 1
    /\ LET G == drop_handle(GpuState, s)
       IN  /\ Commit(G)
           /\ free_handles' = [free_handles EXCEPT ![s] = G.held[s] - Cardinality(Owners(s))]
    /\ last_call' = Call("drop_handle", s)
    /\ ret' = Ok(0)
    /\ UNCHANGED <<program, w_shaders, ctxVars, cacheHist, ctxHist, appVars>>

\* ProgramWrapper::new over a static vertex and fragment shader.
NewProgramWrapper(w, v, f) ==
    /\ program[w].st = "none"
    /\ program' = [program EXCEPT ![w] = [st |-> "uninit", id |-> 0, err |-> NoError]]
    /\ w_shaders' = [w_shaders EXCEPT ![w] = {v, f}]
    /\ last_call' = Call("ProgramWrapper::new", w)
    /\ ret' = Ok(0)
    /\ gl_calls' = <<>>
    /\ stores' = <<>>
    /\ UNCHANGED <<instance, free_handles, glVars, ctxVars, cacheHist, ctxHist, appVars>>

\* ProgramWrapper::get_program_id
GetProgramId(w) ==
    /\ program[w].st \in {"uninit", "linked", "failed"}
    /\ \E o \in get_program_id(w) :
         /\ Commit(o.G)
         /\ program' = [program EXCEPT ![w] = o.cell]
         /\ ret' = o.res
         /\ Charge(w, o.G.calls)
    /\ last_call' = Call("get_program_id", w)
    /\ UNCHANGED <<free_handles, w_shaders, ctxVars, ctxHist, appVars>>

\* The drawable is dropped, and with it the Program its cell holds.
DropProgramWrapper(w) ==
    /\ program[w].st \in {"uninit", "linked", "failed"}
    /\ LET G == IF program[w].st = "linked"
                THEN drop_Program(GpuState, program[w].id, VertexOf(w), FragmentOf(w))
                ELSE GpuState
       IN  Commit(G)
    /\ program' = [program EXCEPT ![w] = [st |-> "dropped", id |-> 0, err |-> NoError]]
    /\ w_shaders' = [w_shaders EXCEPT ![w] = {}]
    /\ w_compiles' = [w_compiles EXCEPT ![w] = [s \in Shaders |-> 0]]
    /\ w_links' = [w_links EXCEPT ![w] = 0]
    /\ last_call' = Call("drop", w)
    /\ ret' = Ok(0)
    /\ UNCHANGED <<free_handles, ctxVars, ctxHist, appVars>>

(***************************************************************************)
(* MutCell (utils/mut_cell.rs).                                            *)
(***************************************************************************)
\* MutCell::set
MutCell_set(cell, v) == [value |-> v, has_changed |-> TRUE]

\* execute_on_change that leaves the flag set.
execute_on_change_keeps_flag(cell) ==
    IF cell.has_changed
    THEN [ran |-> <<cell.value>>, cell |-> cell]
    ELSE [ran |-> <<>>, cell |-> cell]

\* MutCell::execute_on_change: the values the closure was run on, and the cell after.
execute_on_change(cell) ==
    IF cell.has_changed
    THEN [ran |-> <<cell.value>>, cell |-> [cell EXCEPT !.has_changed = FALSE]]
    ELSE [ran |-> <<>>, cell |-> cell]

(***************************************************************************)
(* ApplicationContext and RendererContext.                                 *)
(***************************************************************************)
\* Event::KeyPress(NamedKey)
KeyPress(k) == [kind |-> "KeyPress", key |-> k]

\* ApplicationContext::is_key_pressed
is_key_pressed(k) == KeyPress(k) \in input_events

\* RendererContext::add_commands
add_commands(queue, op) == Append(queue, op)

Reverse(q) == [i \in 1..Len(q) |-> q[Len(q) + 1 - i]]

\* Draining from the front.
DrainOrderFifo(q) == q

\* The order in which draw pops the queue: Vec::pop takes the last element.
DrainOrder(q) == Reverse(q)

\* A deferred operation: the closure and the program id it captured.
Deferred(src, id) == [src |-> src, id |-> id]

\* The GL work of a deferred operation when draw runs it.
Run(op) == GlCall("Run", op.src, op.id)

ClearColor(c) == [call |-> "ClearColor", src |-> "", id |-> 0, color |-> c]

SeqMap(F(_), q) == [i \in 1..Len(q) |-> F(q[i])]

Min(a, b) == IF a < b THEN a ELSE b

\* An insert that forgets the events already there.
insert_event_replacing(events, e) == {e}

\* FnvHashSet::insert as add_event uses it.
insert_event(events, e) == events \cup {e}

\* ApplicationContext::add_event
AddEvent(k) ==
    /\ input_events' = insert_event(input_events, KeyPress(k))
    /\ noted' = noted \cup {k}
    /\ last_call' = Call("add_event", k)
    /\ ret' = Ok(0)
    /\ gl_calls' = <<>>
    /\ stores' = <<>>
    /\ UNCHANGED <<output_commands, background_color, command_queue, exit_status,
                   cacheVars, glVars, cacheHist, pending_sets, latest_set, flushed,
                   coalesced, requests, frame_failed, replaced, stale,
                   appVars>>

\* ApplicationContext::set_background_color
SetBackgroundColor(c) ==
    /\ background_color' = MutCell_set(background_color, Normalize(c))
    /\ pending_sets' = Min(pending_sets + 1, SetsCap)
    /\ latest_set' = c
    /\ last_call' = [op |-> "set_background_color", obj |-> "", color |-> c]
    /\ ret' = Ok(0)
    /\ gl_calls' = <<>>
    /\ stores' = <<>>
    /\ UNCHANGED <<input_events, output_commands, command_queue, exit_status, cacheVars,
                   glVars, cacheHist, noted, flushed, coalesced, requests, frame_failed,
                   replaced, stale, appVars>>

\* A record that keeps the error it finds.
record_status_keeps_first(status, res) == IF status.ok THEN res ELSE status

\* self.exit_status = object.draw(..): what the drawable returned, whatever was
\* stored.
record_status(status, res) == res

\* ApplicationContext::draw_game_object on a TestGameObject: Drawable::draw asks the
\* cache for the program id and, having it, records one deferred operation.
DrawGameObject(w) ==
    /\ program[w].st \in {"uninit", "linked", "failed"}
    /\ \E o \in get_program_id(w) :
         /\ Commit(o.G)
         /\ program' = [program EXCEPT ![w] = o.cell]
         /\ Charge(w, o.G.calls)
         /\ IF o.res.ok
            THEN /\ command_queue' = add_commands(command_queue, Deferred(w, o.res.val))
                 /\ exit_status' = record_status(exit_status, Ok(0))
            ELSE /\ command_queue' = command_queue
                 /\ exit_status' = record_status(exit_status, Err(o.res.err))
         /\ frame_failed' = (frame_failed \/ ~o.res.ok)
         /\ replaced' = exit_status
         /\ UNCHANGED stale
    /\ last_call' = Call("draw_game_object", w)
    /\ ret' = Ok(0)
    /\ UNCHANGED <<input_events, output_commands, background_color, free_handles, w_shaders,
                   noted, pending_sets, latest_set, flushed, coalesced, requests, appVars>>

RECURSIVE PushAll(_, _)
PushAll(queue, ops) ==
    IF ops = <<>> THEN queue ELSE PushAll(add_commands(queue, Deferred(Head(ops), 0)), Tail(ops))

\* ApplicationContext::draw_game_object on any other Drawable: its draw records the
\* operations ops and returns res.
DrawCustom(ops, res) ==
    /\ command_queue' = PushAll(command_queue, ops)
    /\ exit_status' = record_status(exit_status, res)
    /\ frame_failed' = (frame_failed \/ ~res.ok)
    /\ replaced' = exit_status
    /\ UNCHANGED stale
    /\ last_call' = Call("draw_game_object", "custom")
    /\ ret' = Ok(0)
    /\ gl_calls' = <<>>
    /\ stores' = <<>>
    /\ UNCHANGED <<input_events, output_commands, background_color, cacheVars, glVars,
                   cacheHist, noted, pending_sets, latest_set, flushed, coalesced, requests,
                   appVars>>

\* A flush that never looks at the stored error.
FlushNeverBlocked == FALSE

\* The early return of draw: a stored error stops the flush.
FlushBlocked == ~exit_status.ok

\* A loop that runs the operations and leaves them in the queue.
RemainingPeeked(q) == q

\* The queue after the while-let loop of draw: every pop removed what it returned.
Remaining(q) == <<>>

\* A flush that clears the buffers after the deferred operations ran.
flush_calls_clear_last(ran, queue) ==
    SeqMap(ClearColor, ran) \o SeqMap(Run, DrainOrder(queue)) \o <<GlCall("Clear", "", 0)>>

\* The GL calls of a flush that runs, in the order of the statements of draw: the
\* colour if execute_on_change ran its closure, gl::Clear, the deferred operations.
flush_calls(ran, queue) ==
    SeqMap(ClearColor, ran) \o <<GlCall("Clear", "", 0)>> \o SeqMap(Run, DrainOrder(queue))

\* ApplicationContext::draw, the flush.
draw ==
    /\ IF FlushBlocked
       THEN /\ ret' = Err(exit_status.err)
            /\ gl_calls' = <<>>
            /\ UNCHANGED <<background_color, command_queue, pending_sets, flushed, coalesced>>
       ELSE LET x == execute_on_change(background_color)
            IN  /\ background_color' = x.cell
                /\ gl_calls' = flush_calls(x.ran, command_queue)
                /\ command_queue' = Remaining(command_queue)
                /\ ret' = Ok(0)
                /\ pending_sets' = 0
                /\ flushed' = TRUE
                /\ coalesced' = pending_sets
    /\ stores' = <<>>
    /\ frame_failed' = FALSE
    /\ replaced' = Ok(0)
    /\ UNCHANGED <<input_events, exit_status, cacheVars, glVars, cacheHist, noted, latest_set>>

\* ApplicationContext::draw called on its own.
Draw ==
    /\ draw
    /\ UNCHANGED stale
    /\ last_call' = Call("draw", "")
    /\ UNCHANGED <<output_commands, requests, appVars>>

(***************************************************************************)
(* The id-only cache (common/wrappers/program_wrapper.rs) and the drawable *)
(* of three_d/game_objects built on it.                                    *)
(***************************************************************************)
pw_VertexOf(w) == CHOOSE s \in pw_shaders[w] : s \in VertexShaders

pw_FragmentOf(w) == CHOOSE s \in pw_shaders[w] : s \in FragmentShaders

\* The closure of ProgramWrapper::get_program_id: both handles are locals, dropped
\* when the closure returns, the fragment handle first.
pw_init_program_id(G, w) ==
    LET v == pw_VertexOf(w)
        f == pw_FragmentOf(w)
    IN  UNION {LET hv == get_shader_handle(G, v, nv)
               IN  IF ~hv.res.ok
                   THEN {hv}
                   ELSE UNION {LET hf == get_shader_handle(hv.G, f, nf)
                               IN  IF ~hf.res.ok
                                   THEN {[res |-> hf.res, G |-> drop_handle(hf.G, v)]}
                                   ELSE {LET c == create_program(hf.G, v, f, np)
                                         IN  [res |-> c.res,
                                              G |-> drop_handle(drop_handle(c.G, f), v)] :
                                           np \in FreeProgramNames(hf.G)}
                               : nf \in NamesFor(hv.G, f)}
               : nv \in NamesFor(G, v)}

\* ProgramWrapper::get_program_id of the id-only cache, from the driver state G.
pw_get_program_id(G, w) ==
    IF program_id[w].st # "uninit"
    THEN {[res |-> Cached(program_id[w]), G |-> G, cell |-> program_id[w]]}
    ELSE {[res |-> Cached(Memo(o.res)), G |-> o.G, cell |-> Memo(o.res)] :
            o \in pw_init_program_id(G, w)}

\* ProgramWrapper::get_vao_ref: gl::GenVertexArrays on an empty cell.
get_vao_ref(G, w) ==
    IF vao_ref[w] # 0
    THEN {[ref |-> vao_ref[w], G |-> G]}
    ELSE {[ref |-> n,
           G |-> Log([G EXCEPT !.arrays = @ \cup {n}], GlCall("GenVertexArrays", "", n))] :
            n \in Lowest(ArrayNames \ G.arrays)}

\* ProgramWrapper::get_vbo_ref: gl::GenBuffers on an empty cell.
get_vbo_ref(G, w) ==
    IF vbo_ref[w] # 0
    THEN {[ref |-> vbo_ref[w], G |-> G]}
    ELSE {[ref |-> n,
           G |-> Log([G EXCEPT !.buffers = @ \cup {n}], GlCall("GenBuffers", "", n))] :
            n \in Lowest(ArrayNames \ G.buffers)}

\* TestGameObject::new of three_d/game_objects: an empty ProgramWrapper.
NewThreeDObject(w, v, f) ==
    /\ program_id[w].st = "none"
    /\ program_id' = [program_id EXCEPT ![w] = [st |-> "uninit", id |-> 0, err |-> NoError]]
    /\ pw_shaders' = [pw_shaders EXCEPT ![w] = {v, f}]
    /\ last_call' = Call("TestGameObject::new", w)
    /\ ret' = Ok(0)
    /\ gl_calls' = <<>>
    /\ stores' = <<>>
    /\ UNCHANGED <<cacheVars, vao_ref, vbo_ref, glVars, ctxVars, drvVars, raceVars, taken, cacheHist,
                   ctxHist>>

\* ApplicationContext::draw_game_object on a TestGameObject of three_d/game_objects:
\* its draw asks for the program id, the vertex array and the buffer, and records
\* one deferred operation.
DrawThreeDObject(w) ==
    /\ program_id[w].st \in {"uninit", "linked", "failed"}
    /\ \E o \in pw_get_program_id(GpuState, w) :
         /\ program_id' = [program_id EXCEPT ![w] = o.cell]
         /\ IF o.res.ok
            THEN \E a \in get_vao_ref(o.G, w) : \E b \in get_vbo_ref(a.G, w) :
                   /\ Commit(b.G)
                   /\ vao_ref' = [vao_ref EXCEPT ![w] = a.ref]
                   /\ vbo_ref' = [vbo_ref EXCEPT ![w] = b.ref]
                   /\ command_queue' = add_commands(command_queue, Deferred(w, o.res.val))
                   /\ exit_status' = record_status(exit_status, Ok(0))
            ELSE /\ Commit(o.G)
                 /\ command_queue' = command_queue
                 /\ exit_status' = record_status(exit_status, Err(o.res.err))
                 /\ UNCHANGED <<vao_ref, vbo_ref>>
         /\ frame_failed' = (frame_failed \/ ~o.res.ok)
         /\ replaced' = exit_status
         /\ UNCHANGED stale
    /\ last_call' = Call("draw_game_object", w)
    /\ ret' = Ok(0)
    /\ UNCHANGED <<input_events, output_commands, background_color, free_handles, program,
                   w_shaders, pw_shaders, drvVars, raceVars, taken, cacheHist, noted, pending_sets,
                   latest_set, flushed, coalesced, requests>>

\* Drop for ProgramWrapper: the program object of a linked cell is deleted.
DropThreeDObject(w) ==
    /\ program_id[w].st \in {"uninit", "linked", "failed"}
    /\ LET G == IF program_id[w].st = "linked"
                THEN gl_DeleteProgram(GpuState, program_id[w].id)
                ELSE GpuState
       IN  Commit(G)
    /\ program_id' = [program_id EXCEPT ![w] = [st |-> "dropped", id |-> 0, err |-> NoError]]
    /\ pw_shaders' = [pw_shaders EXCEPT ![w] = {}]
    /\ last_call' = Call("drop", w)
    /\ ret' = Ok(0)
    /\ UNCHANGED <<free_handles, program, w_shaders, vao_ref, vbo_ref, ctxVars, drvVars, raceVars,
                   taken, cacheHist, ctxHist>>

(***************************************************************************)
(* Output commands: exit and cursor requests, handed to the driver.        *)
(***************************************************************************)
\* Command::Exit, Command::CursorGrab(bool), Command::CursorVisible(bool)
Command(cmd, enable) == [cmd |-> cmd, enable |-> enable]

Commands ==
    {Command("Exit", FALSE)} \cup {Command(c, b) : c \in {"CursorGrab", "CursorVisible"},
                                                   b \in BOOLEAN}

BoolName(b) == IF b THEN "true" ELSE "false"

\* The call that requests command c.
RequestCall(c) ==
    IF c.cmd = "Exit" THEN Call("exit", "")
    ELSE IF c.cmd = "CursorGrab" THEN Call("set_cursor_grab", BoolName(c.enable))
    ELSE Call("set_cursor_visible", BoolName(c.enable))

\* A push that drops a request equal to a pending one.
push_command_merging(cmds, c) ==
    IF \E i \in 1..Len(cmds) : cmds[i] = c THEN cmds ELSE Append(cmds, c)

\* output_commands.push
push_command(cmds, c) == Append(cmds, c)

\* A read that leaves the pending list in place.
pop_all_commands_keeping(cmds) == [out |-> cmds, rest |-> cmds]

\* ApplicationContext::pop_all_commands: the list is swapped with a new empty one.
pop_all_commands(cmds) == [out |-> cmds, rest |-> <<>>]

\* exit, set_cursor_grab and set_cursor_visible: each pushes its command.
Request(c) ==
    /\ output_commands' = push_command(output_commands, c)
    /\ requests' = Append(requests, c)
    /\ last_call' = RequestCall(c)
    /\ ret' = Ok(0)
    /\ gl_calls' = <<>>
    /\ stores' = <<>>
    /\ UNCHANGED <<input_events, background_color, command_queue, exit_status, cacheVars,
                   glVars, cacheHist, noted, pending_sets, latest_set, flushed, coalesced,
                   frame_failed, replaced, stale,
                   appVars>>

\* ApplicationContext::exit
Exit == Request(Command("Exit", FALSE))

\* ApplicationContext::set_cursor_grab
SetCursorGrab(enable) == Request(Command("CursorGrab", enable))

\* ApplicationContext::set_cursor_visible
SetCursorVisible(enable) == Request(Command("CursorVisible", enable))

\* ApplicationContext::pop_all_commands called on its own.
PopAllCommands ==
    /\ LET p == pop_all_commands(output_commands)
       IN  /\ taken' = p.out
           /\ output_commands' = p.rest
    /\ requests' = <<>>
    /\ last_call' = Call("pop_all_commands", "")
    /\ ret' = Ok(0)
    /\ gl_calls' = <<>>
    /\ stores' = <<>>
    /\ UNCHANGED <<input_events, background_color, command_queue, exit_status, cacheVars,
                   glVars, cacheHist, noted, pending_sets, latest_set, flushed, coalesced,
                   frame_failed, replaced, stale, pwVars,
                   drvVars, raceVars>>

(***************************************************************************)
(* The driver: the handlers of InnerApplication (internal_game_loop.rs).   *)
(***************************************************************************)
\* DuendeError::GlError(GlError)
DuendeError_GlError(e) == [kind |-> "GlError", msg |-> "", gl |-> e]

\* DuendeError::UnsupportedDevice(UnsupportedDevice::CursorGrab)
DuendeError_UnsupportedDevice == [kind |-> "UnsupportedDevice", msg |-> "CursorGrab", gl |-> NoError]

CursorGrabModes == {"None", "Confined", "Locked"}

\* What a window may support: the modes in which set_cursor_grab succeeds.
Platforms == SUBSET CursorGrabModes

\* Window::set_cursor_grab on a window that supports the modes in plat.
set_cursor_grab(st, mode, plat) ==
    IF mode \in plat THEN [res |-> Ok(0), st |-> [st EXCEPT !.grab = mode]]
    ELSE [res |-> Err(DuendeError_UnsupportedDevice), st |-> st]

\* One arm of the match in about_to_wait.
run_command(st0, c, plat) ==
    LET st == [st0 EXCEPT !.log = Append(@, c.cmd)]
    IN  IF c.cmd = "CursorGrab"
        THEN LET r == IF c.enable
                      THEN set_cursor_grab(st, "None", plat)
                      ELSE LET confined == set_cursor_grab(st, "Confined", plat)
                           IN  IF confined.res.ok THEN confined
                               ELSE set_cursor_grab(st, "Locked", plat)
             IN  IF r.res.ok THEN r.st
                 ELSE [r.st EXCEPT !.error = r.res, !.log = Append(@, "grab rejected")]
        ELSE IF c.cmd = "CursorVisible"
        THEN [st EXCEPT !.visible = c.enable]
        ELSE [st EXCEPT !.exit = TRUE]

\* The for loop over the commands taken.
RECURSIVE run_commands(_, _, _)
run_commands(st, cmds, plat) ==
    IF cmds = <<>> THEN st ELSE run_commands(run_command(st, Head(cmds), plat), Tail(cmds), plat)

\* A tick in which an error of the commands is not replaced by the flush's.
tick_error_keeps_first(error, flush) ==
    IF ~error.ok THEN error
    ELSE IF flush.ok THEN error ELSE Err(DuendeError_GlError(flush.err))

\* The local error of about_to_wait after the flush returned.
tick_error(error, flush) == IF flush.ok THEN error ELSE Err(DuendeError_GlError(flush.err))

\* Game::teardown, counted.
teardown(n) == n + 1

\* InnerApplication::exit and the tail of exit_with_error, in the log of a tick.
exit_steps == <<"teardown", "event_loop.exit">>

\* A tick that handles the exit request before it flushes and presents.
tick_steps_exit_first(log, exit, error) ==
    log \o (IF exit THEN exit_steps ELSE <<>>)
        \o <<"draw", "request_redraw", "swap_buffers">>
        \o (IF error.ok THEN <<>> ELSE <<"exit_state">> \o exit_steps)

\* The statements of about_to_wait after the loop over the commands, in order:
\* context.draw(), window.request_redraw(), gl_surface.swap_buffers(), then
\* self.exit() if exit was asked and exit_with_error if an error was met.
tick_steps(log, exit, error) ==
    log \o <<"draw", "request_redraw", "swap_buffers">>
        \o (IF exit THEN exit_steps ELSE <<>>)
        \o (IF error.ok THEN <<>> ELSE <<"exit_state">> \o exit_steps)

\* InnerApplication::about_to_wait from the return of game_loop on: the commands are
\* taken and run, the frame is flushed, and the loop is left on an exit request or
\* an error.  The loop returns at the end of an iteration in which exit was asked.
\* Without window state the handler does nothing.
AboutToWait ==
    /\ IF state
       THEN /\ draw
            /\ \E plat \in Platforms :
                 LET p == pop_all_commands(output_commands)
                     st == run_commands([grab |-> cursor_grab, visible |-> cursor_visible,
                                         exit |-> FALSE, error |-> Ok(0),
                                         log |-> <<"game_loop", "pop_all_commands">>],
                                        p.out, plat)
                     error == tick_error(st.error, ret')
                     n == IF st.exit THEN teardown(teardowns) ELSE teardowns
                 IN  /\ taken' = p.out
                     /\ output_commands' = p.rest
                     /\ cursor_grab' = st.grab
                     /\ cursor_visible' = st.visible
                     /\ exit_state' = IF error.ok THEN exit_state ELSE error
                     /\ teardowns' = IF error.ok THEN n ELSE teardown(n)
                     /\ loop_exit' = (loop_exit \/ st.exit \/ ~error.ok)
                     /\ returned' = loop_exit'
                     /\ steps' = tick_steps(st.log, st.exit, error)
            /\ requests' = <<>>
            /\ stale' = (command_queue' # <<>>)
            /\ UNCHANGED <<pwVars, raceVars, context, state, viewport, panicked>>
       ELSE /\ steps' = <<>>
            /\ ret' = Ok(0)
            /\ gl_calls' = <<>>
            /\ stores' = <<>>
            /\ UNCHANGED <<cacheVars, pwVars, raceVars, glVars, ctxVars, exit_state, teardowns,
                           loop_exit, returned, cursor_grab, cursor_visible, context, state,
                           viewport, panicked, taken, cacheHist, ctxHist>>
    /\ last_call' = Call("about_to_wait", "")

\* window_event(CloseRequested): InnerApplication::exit, which acts only on a driver
\* that has a context.
CloseRequested ==
    /\ teardowns' = IF context THEN teardown(teardowns) ELSE teardowns
    /\ loop_exit' = (loop_exit \/ context)
    /\ last_call' = Call("window_event", "CloseRequested")
    /\ ret' = Ok(0)
    /\ gl_calls' = <<>>
    /\ stores' = <<>>
    /\ UNCHANGED <<cacheVars, pwVars, raceVars, glVars, ctxVars, exit_state, returned, cursor_grab,
                   cursor_visible, context, state, viewport, steps, panicked, taken,
                   cacheHist, ctxHist>>

\* The event loop stops as soon as exit was asked for, without another handler.
LoopExits ==
    /\ loop_exit
    /\ returned' = TRUE
    /\ last_call' = Call("run_app", "")
    /\ ret' = Ok(0)
    /\ gl_calls' = <<>>
    /\ stores' = <<>>
    /\ UNCHANGED <<cacheVars, pwVars, raceVars, glVars, ctxVars, exit_state, teardowns, loop_exit,
                   cursor_grab, cursor_visible, context, state, viewport, steps, panicked,
                   taken, cacheHist, ctxHist>>

\* DuendeError::InternalError(e), e the failure of the display builder.
DuendeError_InternalError == [kind |-> "InternalError", msg |-> "display", gl |-> NoError]

\* InnerApplication::exit_with_error on the driver fields D: nothing is done, and
\* nothing recorded, while there is no context.
exit_with_error(D, error) ==
    IF D.context
    THEN [D EXCEPT !.exit_state = Err(error), !.teardowns = teardown(@), !.loop_exit = TRUE]
    ELSE D

\* self.state.replace(..).is_none(), the condition resumed asserts.
replace_is_none(old) == ~old

\* InnerApplication::resumed.  build_ok: the display builder succeeds; grab_mouse and
\* mouse_cursor_visible: the fields of the builder; plat: the grab modes the window
\* supports.  A failed build returns early; a rejected grab does not.  The handler
\* stores the new window state and asserts that there was none: with one, it
\* panics.  The calls Game::setup makes are the actions that follow.
Resumed(build_ok, grab_mouse, mouse_cursor_visible, plat) ==
    /\ LET D0 == [context |-> context, exit_state |-> exit_state, teardowns |-> teardowns,
                  loop_exit |-> loop_exit]
           rejected == build_ok /\ grab_mouse /\ "None" \notin plat
           D == IF ~build_ok THEN exit_with_error(D0, DuendeError_InternalError)
                ELSE IF rejected THEN exit_with_error(D0, DuendeError_UnsupportedDevice)
                ELSE D0
       IN  /\ exit_state' = D.exit_state
           /\ teardowns' = D.teardowns
           /\ loop_exit' = D.loop_exit
           /\ cursor_grab' = IF build_ok /\ grab_mouse /\ ~rejected THEN "None" ELSE cursor_grab
           /\ cursor_visible' = IF build_ok /\ ~mouse_cursor_visible THEN FALSE
                                ELSE cursor_visible
           /\ context' = (context \/ build_ok)
           /\ state' = (state \/ build_ok)
           /\ panicked' = (build_ok /\ ~replace_is_none(state))
           /\ last_call' = Call("resumed", IF ~build_ok THEN "display failed"
                                           ELSE IF rejected THEN "grab rejected" ELSE "")
    /\ ret' = Ok(0)
    /\ gl_calls' = <<>>
    /\ stores' = <<>>
    /\ UNCHANGED <<cacheVars, pwVars, raceVars, glVars, ctxVars, returned, viewport, steps, taken,
                   cacheHist, ctxHist>>

\* A resize that is passed on whatever the size.
ResizeAcceptedAnySize(width, height) == state

\* The guard of the Resized arm and the if let on the window state.
ResizeAccepted(width, height) == width # 0 /\ height # 0 /\ state

\* The window event: the size travels in the third field.
WindowEvent_Resized(width, height) == [op |-> "Resized", obj |-> "", color |-> <<width, height>>]

\* window_event(Resized(size)): the surface is resized and ApplicationContext::resize
\* calls gl::Viewport(0, 0, width, height).
Resized(width, height) ==
    /\ IF ResizeAccepted(width, height)
       THEN /\ viewport' = <<width, height>>
            /\ gl_calls' = <<GlCall("Viewport", "", 0)>>
       ELSE /\ viewport' = viewport
            /\ gl_calls' = <<>>
    /\ last_call' = WindowEvent_Resized(width, height)
    /\ ret' = Ok(0)
    /\ stores' = <<>>
    /\ UNCHANGED <<cacheVars, pwVars, raceVars, glVars, ctxVars, exit_state, teardowns, loop_exit,
                   returned, cursor_grab, cursor_visible, context, state, steps, panicked,
                   taken, cacheHist, ctxHist>>

ElementStates == {"Pressed", "Released"}

\* window_event(KeyboardInput) with a named logical key: the arm binds the key and
\* nothing else of the event, and unwraps the context.
KeyboardInput(k, element_state) ==
    /\ context
    /\ input_events' = insert_event(input_events, KeyPress(k))
    /\ noted' = noted \cup {k}
    /\ last_call' = Call("KeyboardInput " \o element_state, k)
    /\ ret' = Ok(0)
    /\ gl_calls' = <<>>
    /\ stores' = <<>>
    /\ UNCHANGED <<output_commands, background_color, command_queue, exit_status,
                   cacheVars, glVars, cacheHist, pending_sets, latest_set, flushed,
                   coalesced, requests, frame_failed, replaced, stale,
                   appVars>>

\* What a Drawable other than TestGameObject may record and return.
CustomErrors == {ProgramLink("custom drawable")}

OpSeqs(n) == UNION {[1..k -> CustomOps] : k \in 0..n}

\* One step of a program that uses the context: keys from K, colours from C,
\* drawables from W, at most q operations recorded between two flushes.
NextFrame(K, C, W, q) ==
    \/ \E k \in K : AddEvent(k)
    \/ \E c \in C : SetBackgroundColor(c)
    \/ \E w \in W, v \in VertexShaders, f \in FragmentShaders : NewProgramWrapper(w, v, f)
    \/ \E w \in W : Len(command_queue) < q /\ DrawGameObject(w)
    \/ \E ops \in OpSeqs(q - Len(command_queue)), res \in {Ok(0)} \cup {Err(e) : e \in CustomErrors} :
         DrawCustom(ops, res)
    \/ Draw

NextCache ==
    \/ \E s \in Shaders \ NulShaders : GetShaderHandle(s)
    \/ \E s \in Shaders \ NulShaders : CloneHandle(s)
    \/ \E s \in Shaders \ NulShaders : DropHandle(s)
    \/ \E w \in GameObjects, v \in VertexShaders, f \in FragmentShaders : NewProgramWrapper(w, v, f)
    \/ \E w \in GameObjects : GetProgramId(w)
    \/ \E w \in GameObjects : DropProgramWrapper(w)

SpecCache == Init /\ [][NextCache]_vars

\* The live shader objects created for source s.
LiveObjects(s) == {n \in ShaderNames : gl_shaders[n] = s}

\* Handles taken by user code, one of the sources holding a NUL byte.
NextNul ==
    \/ \E s \in NulShaders \cup {"v_ok", "f_ok", "f_bad"} :
         Cardinality(UNION {LiveObjects(n) : n \in NulShaders}) < MaxLeaks /\ GetShaderHandle(s)
    \/ \E s \in {"v_ok"} : CloneHandle(s)
    \/ \E s \in {"v_ok", "f_ok"} : DropHandle(s)

SpecNul == Init /\ [][NextNul]_vars

\* Two threads in get_shader_handle, their statements interleaved; handles are
\* dropped while no call is in progress.
NextRace ==
    \/ \E c \in Callers, s \in {"v_ok", "v_bad"} :
         free_handles[s] + Cardinality(InFlight) < MaxHandles /\ CallerChecks(c, s)
    \/ \E c \in Callers : CallerCompiles(c)
    \/ \E c \in Callers : CallerStores(c)
    \/ \E c \in Callers : CallerClones(c)
    \/ \E s \in {"v_ok", "v_bad"} : InFlight = {} /\ DropHandle(s)

SpecRace == Init /\ [][NextRace]_vars

\* The frame: recording and flushing.
Spec == Init /\ [][NextFrame({"Escape"}, {<<0, 0, 0, 255>>}, {"g1"}, MaxQueue)]_vars

\* The frame, with every key and colour and a queue of one.
SpecInput == Init /\ [][NextFrame(Keys, Colors, {"g1"}, 1)]_vars

\* Requests and their delivery.
NextOutput ==
    \/ Len(output_commands) < MaxPending /\ Exit
    \/ \E b \in BOOLEAN : Len(output_commands) < MaxPending /\ SetCursorGrab(b)
    \/ \E b \in BOOLEAN : Len(output_commands) < MaxPending /\ SetCursorVisible(b)
    \/ PopAllCommands

SpecOutput == Init /\ [][NextOutput]_vars

\* The drawables of three_d/game_objects: recording and flushing, with handles
\* taken by user code in between.
NextThreeD ==
    \/ \E w \in ThreeDObjects, v \in VertexShaders, f \in FragmentShaders : NewThreeDObject(w, v, f)
    \/ \E w \in ThreeDObjects : Len(command_queue) < MaxQueue - 1 /\ DrawThreeDObject(w)
    \/ \E w \in ThreeDObjects : DropThreeDObject(w)
    \/ \E s \in {"v_ok"} : free_handles[s] < MaxHandles - 1 /\ GetShaderHandle(s)
    \/ \E s \in {"v_ok"} : DropHandle(s)
    \/ Draw

SpecThreeD == Init /\ [][NextThreeD]_vars

\* A run of the event loop: the calls game_loop makes, the window events, the tick.
NextTick ==
    \/ \E k \in {"Escape"} : ~returned /\ AddEvent(k)
    \/ ~returned /\ teardowns + 2 < MaxTeardowns /\ CloseRequested
    \/ \E ops \in OpSeqs(1 - Len(command_queue)), res \in {Ok(0)} \cup {Err(e) : e \in CustomErrors} :
         ~returned /\ DrawCustom(ops, res)
    \/ ~returned /\ Len(output_commands) < TickPending /\ Exit
    \/ \E b \in BOOLEAN : ~returned /\ Len(output_commands) < TickPending /\ SetCursorGrab(b)
    \/ \E b \in {FALSE} : ~returned /\ Len(output_commands) < TickPending /\ SetCursorVisible(b)
    \/ ~returned /\ teardowns + 2 <= MaxTeardowns /\ AboutToWait
    \/ ~returned /\ LoopExits

SpecTick == Init /\ [][NextTick]_vars

\* A run of the event loop from InnerApplication::new on: the driver is resumed,
\* window events arrive, and once there is window state the game's callbacks make
\* their calls between two ticks.
NextRun ==
    \/ \E build_ok \in BOOLEAN, grab_mouse \in BOOLEAN, visible \in BOOLEAN, plat \in {{}, {"None"}} :
         ~returned /\ ~panicked /\ teardowns + 2 <= MaxTeardowns
                   /\ Resumed(build_ok, grab_mouse, visible, plat)
    \/ \E width \in 0..MaxDim, height \in 0..1 : ~returned /\ ~panicked /\ Resized(width, height)
    \/ \E k \in {"Escape", "Enter"}, es \in ElementStates : ~returned /\ ~panicked /\ KeyboardInput(k, es)
    \/ ~returned /\ ~panicked /\ teardowns + 2 < MaxTeardowns /\ CloseRequested
    \/ \E ops \in OpSeqs(0), res \in {Ok(0)} \cup {Err(e) : e \in CustomErrors} :
         ~returned /\ ~panicked /\ state /\ DrawCustom(ops, res)
    \/ ~returned /\ ~panicked /\ state /\ Len(output_commands) < TickPending /\ Exit
    \/ ~returned /\ ~panicked /\ teardowns + 2 <= MaxTeardowns /\ AboutToWait
    \/ ~returned /\ ~panicked /\ LoopExits

SpecRun == InitNew /\ [][NextRun]_vars

(***************************************************************************)
(* The claims.                                                             *)
(***************************************************************************)
RunsOf(calls) == SelectSeq(calls, LAMBDA c : c.call = "Run")

ClearColorsOf(calls) == SelectSeq(calls, LAMBDA c : c.call = "ClearColor")

HasBad(w) == \E s \in w_shaders[w] : ~CompileOk(s)

\* The source whose compile fails first when the cache of w is initialised.
FirstBad(w) == IF ~CompileOk(VertexOf(w)) THEN VertexOf(w) ELSE FragmentOf(w)

\* C1: a flush that runs (ExitStatus Ok) executes the recorded operations in the
\* reverse of the order in which they were recorded: the i-th operation executed
\* is the i-th from the end of the queue.
C1_FlushIsLifo ==
    [][(last_call'.op = "draw" /\ exit_status.ok) =>
         LET q == command_queue
             r == RunsOf(gl_calls')
         IN  /\ Len(r) = Len(q)
             /\ \A i \in 1..Len(q) : r[i] = Run(q[Len(q) + 1 - i])]_vars

\* Recorded A, B, then g1's operation; the flush ran g1's, B, A.
C1_Witness ==
    /\ last_call.op = "draw"
    /\ ret.ok
    /\ Len(RunsOf(gl_calls)) = 3
    /\ RunsOf(gl_calls)[1].src = "g1"
    /\ RunsOf(gl_calls)[2] = Run(Deferred("B", 0))
    /\ RunsOf(gl_calls)[3] = Run(Deferred("A", 0))

\* C2: while a handle to a shader is alive, no operation compiles that shader, and a
\* get_shader_handle call returns the stored identifier unchanged, with no GL call.
C2_NoCompileWhileHeld ==
    [][\A s \in Shaders : Holders(s) >= 1 =>
         /\ CountCalls(gl_calls', "CompileShader", s) = 0
         /\ last_call' = Call("get_shader_handle", s) =>
              /\ ret' = Ok(instance[s])
              /\ instance'[s] = instance[s]
              /\ free_handles'[s] = free_handles[s] + 1
              /\ gl_calls' = <<>>]_vars

\* A second handle was taken while the first is alive: nothing was compiled.
C2_Witness ==
    \E s \in Shaders :
        /\ last_call = Call("get_shader_handle", s)
        /\ free_handles[s] = 2
        /\ gl_calls = <<>>
        /\ ret = Ok(instance[s])
        /\ LiveObjects(s) = {instance[s]}

\* C3: the shader object compiled from a source is live exactly while a handle to it
\* is alive (the user's, a clone, or one a Program owns), it is the object the stored
\* identifier names, and no delete is ever issued on a name that is not live.
C3_DeletedAtLastDrop ==
    /\ ~gl_error
    /\ \A s \in Shaders :
         LiveObjects(s) = IF Holders(s) >= 1 THEN {instance[s]} ELSE {}

\* The user's last handle was dropped while a Program owns one: no delete.
C3_Witness ==
    \E s \in Shaders :
        /\ last_call = Call("drop_handle", s)
        /\ free_handles[s] = 0
        /\ Owners(s) # {}
        /\ gl_calls = <<>>
        /\ LiveObjects(s) = {instance[s]}

\* C4: once ExitStatus holds an error it holds an error in every later state.
C4_ExitStatusSticky == [][~exit_status.ok => ~exit_status'.ok]_vars

\* C5: a flush called while ExitStatus holds an error returns that error, issues no
\* GL call, runs no deferred operation and leaves the queue as it was.
C5_FlushShortCircuits ==
    [][(last_call'.op = "draw" /\ ~exit_status.ok) =>
         /\ ret' = Err(exit_status.err)
         /\ gl_calls' = <<>>
         /\ command_queue' = command_queue
         /\ exit_status' = exit_status]_vars

\* A flush returned the stored error with operations still in the queue.
C5_Witness ==
    /\ last_call.op = "draw"
    /\ ~ret.ok
    /\ ret.err = exit_status.err
    /\ Len(command_queue) >= 1
    /\ gl_calls = <<>>

\* C6: every record of a drawable one of whose sources fails to compile leaves the
\* ShaderCompile error of that source in ExitStatus, with exactly one compile
\* attempt of the source made for the drawable; once the error is cached a record
\* issues no GL call.
C6_CompileErrorCached ==
    [][\A w \in GameObjects :
         (last_call' = Call("draw_game_object", w) /\ HasBad(w)) =>
            /\ exit_status' = Err(ShaderCompile(ShaderInfoLog(FirstBad(w))))
            /\ w_compiles'[w][FirstBad(w)] = 1
            /\ program[w].st = "failed" => gl_calls' = <<>>]_vars

\* A later record of a broken drawable: the error came from the cache.
C6_Witness ==
    \E w \in GameObjects :
        /\ last_call = Call("draw_game_object", w)
        /\ program[w].st = "failed"
        /\ exit_status = Err(program[w].err)
        /\ exit_status.err.kind = "ShaderCompile"
        /\ w_compiles[w][FirstBad(w)] = 1
        /\ gl_calls = <<>>

\* C7: a flush that runs after one or more set_background_color calls issues the
\* clear-color call once, with the normalised value of the latest call, and a flush
\* that runs with no set since the previous flush that ran issues none.
C7_ColorCoalesced ==
    [][(last_call'.op = "draw" /\ exit_status.ok) =>
         /\ pending_sets >= 1 =>
              ClearColorsOf(gl_calls') = <<ClearColor(Normalize(latest_set))>>
         /\ (pending_sets = 0 /\ flushed) => ClearColorsOf(gl_calls') = <<>>]_vars

\* A flush absorbed two set calls and applied the latest colour once.
C7_Witness ==
    /\ last_call.op = "draw"
    /\ ret.ok
    /\ coalesced >= 2
    /\ ClearColorsOf(gl_calls) = <<ClearColor(Normalize(latest_set))>>

\* C8: is_key_pressed(K) is true exactly when add_event(KeyPress(K)) has been called:
\* false before the first such call, true from it on, whatever other keys are noted.
C8_KeyPressedIffNoted == \A k \in Keys : is_key_pressed(k) <=> k \in noted

\* Enter was just noted; Escape, never noted, is still not pressed.
C8_Witness ==
    /\ last_call = Call("add_event", "Enter")
    /\ is_key_pressed("Enter")
    /\ ~is_key_pressed("Escape")

\* C9: constructing a program cache issues no GL call; a get_program_id on a cell
\* that is already initialised issues none; and a cache makes at most one link
\* attempt and at most one compile attempt per shader.
C9_CompileLinkAtMostOnce ==
    [][\A w \in GameObjects :
         /\ last_call' = Call("ProgramWrapper::new", w) =>
              (gl_calls' = <<>> /\ w_links'[w] = 0 /\ \A s \in Shaders : w_compiles'[w][s] = 0)
         /\ (last_call' = Call("get_program_id", w) /\ program[w].st # "uninit") =>
              gl_calls' = <<>>
         /\ w_links'[w] <= 1
         /\ \A s \in Shaders : w_compiles'[w][s] <= 1]_vars

\* A later get_program_id on a linked cache: no GL call, one link, one compile each.
C9_Witness ==
    \E w \in GameObjects :
        /\ last_call = Call("get_program_id", w)
        /\ program[w].st = "linked"
        /\ gl_calls = <<>>
        /\ w_links[w] = 1
        /\ \A s \in w_shaders[w] : w_compiles[w][s] = 1

\* C10: a cache that is Linked or Failed stays exactly so until it is dropped, and
\* get_program_id on it returns the memoized id or error.
C10_TerminalStates ==
    [][\A w \in GameObjects : program[w].st \in {"linked", "failed"} =>
         /\ program'[w] = program[w] \/ program'[w].st = "dropped"
         /\ last_call' = Call("get_program_id", w) =>
              /\ program'[w] = program[w]
              /\ program[w].st = "linked" => ret' = Ok(program[w].id)
              /\ program[w].st = "failed" => ret' = Err(program[w].err)]_vars

\* get_program_id was called on a cache that had already failed to link.
C10_Witness ==
    \E w \in GameObjects :
        /\ last_call = Call("get_program_id", w)
        /\ program[w].st = "failed"
        /\ program[w].err.kind = "ProgramLink"
        /\ ret = Err(program[w].err)
        /\ gl_calls = <<>>

CallsOf(calls, call) == SelectSeq(calls, LAMBDA c : c.call = call)

IsPrefix(p, q) == Len(p) <= Len(q) /\ SubSeq(q, 1, Len(p)) = p

Occurrences(q, x) == Cardinality({i \in 1..Len(q) : q[i] = x})

\* C11: each exit, set_cursor_grab or set_cursor_visible call appends exactly its
\* command to the pending list, and a pop_all_commands returns the requests made
\* since the previous one, one entry per request, in request order.
C11_OneEntryPerRequest ==
    [][/\ \A c \in Commands :
            last_call' = RequestCall(c) => output_commands' = Append(output_commands, c)
       /\ last_call'.op = "pop_all_commands" => taken' = requests]_vars

\* Three requests, the first two equal, were all returned, in order.
C11_Witness ==
    /\ last_call.op = "pop_all_commands"
    /\ Len(taken) = 3
    /\ taken[1] = taken[2]
    /\ taken[3] = Command("CursorGrab", TRUE)
    /\ taken[1] = Command("Exit", FALSE)

\* C12: pop_all_commands returns exactly what was pending and leaves nothing
\* pending, so a call that directly follows another returns the empty list.
C12_DestructiveRead ==
    [][last_call'.op = "pop_all_commands" =>
         /\ taken' = output_commands
         /\ output_commands' = <<>>
         /\ last_call.op = "pop_all_commands" => taken' = <<>>]_vars

\* A non-empty list was taken and nothing is pending any more.
C12_Witness ==
    /\ last_call.op = "pop_all_commands"
    /\ taken # <<>>
    /\ output_commands = <<>>
    /\ requests = <<>>

\* C13: a get_shader_handle on a shader nobody holds, whose source the driver
\* rejects, returns the ShaderCompile error with the driver's log, stores nothing,
\* leaves the count of handles at zero and mints no handle.
C13_FailedCompileKeepsState ==
    [][\A s \in Shaders :
         (last_call' = Call("get_shader_handle", s) /\ Holders(s) = 0 /\ ~CompileOk(s)) =>
            /\ ret' = Err(ShaderCompile(ShaderInfoLog(s)))
            /\ instance' = instance
            /\ stores' = <<>>
            /\ free_handles' = free_handles
            /\ Holders(s)' = 0]_vars

\* A rejected compile, while a handle to another shader is alive.
C13_Witness ==
    \E s \in Shaders, o \in Shaders :
        /\ last_call = Call("get_shader_handle", s)
        /\ ret = Err(ShaderCompile(ShaderInfoLog(s)))
        /\ Holders(s) = 0
        /\ CountCalls(gl_calls, "CompileShader", s) = 1
        /\ Holders(o) = 1
        /\ instance[o] # 0

\* C14: a get_program_id that attempts a link creates one program object; if the
\* link fails it returns a ProgramLink error after deleting that object exactly
\* once, and the set of live program objects is as before; if it succeeds it
\* returns that object, live and not deleted.
C14_FailedLinkDeletesProgram ==
    [][\A w \in GameObjects :
         (last_call' = Call("get_program_id", w) /\ CountCalls(gl_calls', "LinkProgram", "") = 1) =>
            LET creates == CallsOf(gl_calls', "CreateProgram")
                deletes == CallsOf(gl_calls', "DeleteProgram")
            IN  /\ Len(creates) = 1
                /\ IF ret'.ok
                   THEN /\ ret'.val = creates[1].id
                        /\ deletes = <<>>
                        /\ gl_programs' = gl_programs \cup {ret'.val}
                        /\ ret'.val \notin gl_programs
                   ELSE /\ ret'.err.kind = "ProgramLink"
                        /\ Len(deletes) = 1
                        /\ deletes[1].id = creates[1].id
                        /\ gl_programs' = gl_programs]_vars

\* A link failed: the object created for it was deleted and is not live.
C14_Witness ==
    \E w \in GameObjects :
        /\ last_call = Call("get_program_id", w)
        /\ ~ret.ok
        /\ ret.err.kind = "ProgramLink"
        /\ Len(CallsOf(gl_calls, "CreateProgram")) = 1
        /\ Len(CallsOf(gl_calls, "DeleteProgram")) = 1
        /\ CallsOf(gl_calls, "CreateProgram")[1].id \notin gl_programs

\* C15: dropping a linked Program deletes its program object exactly once, and
\* deletes the object of each of its two shaders exactly when the Program's handle
\* is the only one alive; no other shader is deleted.
C15_ProgramDrop ==
    [][\A w \in GameObjects :
         (last_call' = Call("drop", w) /\ program[w].st = "linked") =>
            /\ Len(CallsOf(gl_calls', "DeleteProgram")) = 1
            /\ CallsOf(gl_calls', "DeleteProgram")[1].id = program[w].id
            /\ program[w].id \notin gl_programs'
            /\ \A s \in w_shaders[w] :
                 Occurrences(CallsOf(gl_calls', "DeleteShader"),
                             GlCall("DeleteShader", s, instance[s]))
                   = IF Holders(s) = 1 THEN 1 ELSE 0
            /\ Len(CallsOf(gl_calls', "DeleteShader"))
                 = Cardinality({s \in w_shaders[w] : Holders(s) = 1})]_vars

\* A Program was dropped while another live Program shares its shaders: the
\* program object was deleted and no shader was.
C15_Witness ==
    \E w \in GameObjects :
        /\ last_call = Call("drop", w)
        /\ Len(CallsOf(gl_calls, "DeleteProgram")) = 1
        /\ Owners("v_ok") # {}
        /\ Len(CallsOf(gl_calls, "DeleteShader")) = 0
        /\ LiveObjects("v_ok") = {instance["v_ok"]}

\* C16: a get_shader_handle on a shader nobody holds, whose source the driver
\* accepts, compiles it once and stores the new identifier, which names the live
\* object the handle returns; and whenever a handle is alive the stored identifier
\* names a live object compiled from that source.
C16_RecompiledAfterLastDrop ==
    [][/\ \A s \in Shaders :
            (last_call' = Call("get_shader_handle", s) /\ Holders(s) = 0 /\ CompileOk(s)) =>
               /\ CountCalls(gl_calls', "CompileShader", s) = 1
               /\ ret'.ok
               /\ instance'[s] = ret'.val
               /\ stores' = <<[src |-> s, old |-> instance[s], new |-> ret'.val]>>
               /\ free_handles'[s] = 1
       /\ \A s \in Shaders :
            Holders(s)' >= 1 =>
               /\ instance'[s] \in ShaderNames
               /\ gl_shaders'[instance'[s]] = s
               /\ instance'[s] \notin gl_flagged']_vars

\* The stored identifier named a deleted object; the source was compiled again.
C16_Witness ==
    \E s \in Shaders :
        /\ last_call = Call("get_shader_handle", s)
        /\ Len(stores) = 1
        /\ stores[1].src = s
        /\ stores[1].old # 0
        /\ instance[s] = stores[1].new
        /\ CountCalls(gl_calls, "CompileShader", s) = 1
        /\ LiveObjects(s) = {instance[s]}

\* C17: if a record returned an error during a tick, the flush of that tick
\* returns an error and the run ends with an error in exit_state.
C17_AllFailureSurfaced ==
    [][(last_call'.op = "about_to_wait" /\ frame_failed) =>
         (~ret'.ok /\ ~exit_state'.ok /\ returned')]_vars

\* C18: a tick whose flush returns an error stores that error, wrapped as a GL
\* error, in exit_state, calls teardown, asks the loop to exit, and the run returns
\* with that exit_state.
C18_FlushErrorEndsRun ==
    [][(last_call'.op = "about_to_wait" /\ ~ret'.ok) =>
         /\ exit_state' = Err(DuendeError_GlError(ret'.err))
         /\ ret'.err = exit_status.err
         /\ teardowns' > teardowns
         /\ loop_exit'
         /\ returned']_vars

\* A tick that took a command ended the run with the flush's error.
C18_Witness ==
    /\ last_call.op = "about_to_wait"
    /\ ~ret.ok
    /\ taken # <<>>
    /\ exit_state = Err(DuendeError_GlError(ret.err))
    /\ teardowns >= 1
    /\ returned

\* C19: a record of a drawable issues no GL call.
C19_RecordIssuesNoGpuCall ==
    [][last_call'.op = "draw_game_object" => gl_calls' = <<>>]_vars

\* C20: only a flush runs deferred operations: any other operation runs none and
\* keeps what is queued; a flush that runs executes each queued operation once and
\* removes it from the queue, so that it is never run again; a blocked flush runs
\* none.
C20_RunOnlyByFlushOnce ==
    [][IF last_call'.op = "draw"
       THEN IF exit_status.ok
            THEN /\ Len(RunsOf(gl_calls')) = Len(command_queue)
                 /\ \A i \in 1..Len(command_queue) :
                      Occurrences(RunsOf(gl_calls'), Run(command_queue[i]))
                        = Occurrences(command_queue, command_queue[i])
                 /\ command_queue' = <<>>
            ELSE RunsOf(gl_calls') = <<>> /\ command_queue' = command_queue
       ELSE RunsOf(gl_calls') = <<>> /\ IsPrefix(command_queue, command_queue')]_vars

\* A flush ran two recorded operations and the queue is empty.
C20_Witness ==
    /\ last_call.op = "draw"
    /\ ret.ok
    /\ Len(RunsOf(gl_calls)) = 2
    /\ command_queue = <<>>
    /\ flushed

\* C22: for the id-only cache, while a wrapper holds a linked program id that has
\* not been deleted, no delete has been issued for a shader object the program was
\* linked from.
C22_ShadersOutliveProgram ==
    \A w \in ThreeDObjects :
        (program_id[w].st = "linked" /\ program_id[w].id \in gl_programs)
            => gl_attached[program_id[w].id] \cap gl_flagged = {}

\* C23: for the id-only cache, the first get_program_id of a wrapper, made while
\* another wrapper over the same shader pair holds its linked program, compiles
\* neither source again.
C23_CompiledOnceForBoth ==
    [][\A w \in ThreeDObjects :
          (/\ last_call' = Call("draw_game_object", w)
           /\ program_id[w].st = "uninit"
           /\ \E u \in ThreeDObjects \ {w} :
                /\ program_id[u].st = "linked"
                /\ pw_shaders[u] = pw_shaders[w])
          => \A s \in pw_shaders[w] : CountCalls(gl_calls', "CompileShader", s) = 0]_vars

\* C24: a flush that starts with exit_status Ok issues the clear-colour call first
\* and only if the colour is dirty, then exactly one buffer clear, then the
\* deferred operations, all of them after the clear; it leaves the colour clean
\* and returns Ok.
C24_FlushOrder ==
    [][(last_call' = Call("draw", "") /\ exit_status.ok)
          => LET c == gl_calls'
                 k == IF background_color.has_changed THEN 1 ELSE 0
             IN  /\ ret' = Ok(0)
                 /\ Len(c) = k + 1 + Len(command_queue)
                 /\ \A i \in 1..k : c[i] = ClearColor(background_color.value)
                 /\ c[k + 1] = GlCall("Clear", "", 0)
                 /\ \A i \in (k + 2)..Len(c) : c[i].call = "Run"
                 /\ ~background_color'.has_changed]_vars

\* A flush issued the colour, one clear and two deferred operations, in that order.
C24_Witness ==
    /\ last_call = Call("draw", "")
    /\ ret.ok
    /\ Len(gl_calls) = 4
    /\ gl_calls[1].call = "ClearColor"
    /\ gl_calls[2].call = "Clear"
    /\ gl_calls[3].call = "Run"
    /\ gl_calls[4].call = "Run"
    /\ ~background_color.has_changed

\* C25: when a draw_game_object call whose drawable returns an error finds the error
\* of an earlier call of the same frame in exit_status, exit_status afterwards holds
\* the error of the later call.
C25_LastErrorWins ==
    [][\A w \in GameObjects :
          (/\ last_call' = Call("draw_game_object", w)
           /\ frame_failed
           /\ ~exit_status.ok
           /\ program'[w].st = "failed")
          => exit_status' = Err(program'[w].err)]_vars

\* The second failing record of a frame replaced a different error by its own.
C25_Witness ==
    /\ last_call = Call("draw_game_object", "g1")
    /\ program["g1"].st = "failed"
    /\ ~replaced.ok
    /\ replaced # Err(program["g1"].err)
    /\ exit_status = Err(program["g1"].err)

Index(q, x) == CHOOSE i \in 1..Len(q) : q[i] = x

\* C26: in every tick with window state the steps come in this order: the frame
\* callback, taking the pending commands and applying each of them, the flush,
\* the present, and only then the exit handling; a tick in which exit was asked
\* flushes and presents before teardown.
C26_TickOrder ==
    [][(last_call'.op = "about_to_wait" /\ state)
          => LET s == steps'
                 d == Index(s, "draw")
                 b == Index(s, "swap_buffers")
             IN  /\ Occurrences(s, "draw") = 1
                 /\ Occurrences(s, "swap_buffers") = 1
                 /\ s[1] = "game_loop"
                 /\ s[2] = "pop_all_commands"
                 /\ d < b
                 /\ \A i \in 1..Len(taken') : \E j \in 3..(d - 1) : s[j] = taken'[i].cmd
                 /\ \A i \in 1..Len(s) :
                      /\ s[i] \in {"CursorGrab", "CursorVisible", "Exit", "grab rejected"} => i < d
                      /\ s[i] \in {"teardown", "event_loop.exit", "exit_state"} => i > b
                 /\ (\E i \in 1..Len(taken') : taken'[i].cmd = "Exit")
                       => Occurrences(s, "teardown") >= 1]_vars

\* A tick in which the game asked for exit: flush and present, then teardown.
C26_Witness ==
    /\ last_call = Call("about_to_wait", "")
    /\ taken = <<Command("Exit", FALSE)>>
    /\ steps = <<"game_loop", "pop_all_commands", "Exit", "draw", "request_redraw",
                 "swap_buffers", "teardown", "event_loop.exit">>
    /\ teardowns = 1
    /\ loop_exit

\* C28: a tick in which the window rejects the grab mode of a CursorGrab command
\* ends the run, and the run returns UnsupportedDevice(CursorGrab), whatever else
\* happens in that tick.
C28_GrabFailureReturned ==
    [][(last_call'.op = "about_to_wait" /\ state
          /\ \E i \in 1..Len(steps') : steps'[i] = "grab rejected")
          => (returned' /\ exit_state' = Err(DuendeError_UnsupportedDevice))]_vars

\* C21: gl::Viewport is called only by a resize notification that arrives once the
\* window state exists and whose width and height are both non-zero; a
\* notification with a zero width or height is ignored and leaves the viewport
\* as it was.
C21_ResizeNeverZero ==
    [][/\ (viewport' # viewport \/ CallsOf(gl_calls', "Viewport") # <<>>)
          => /\ last_call'.op = "Resized"
             /\ state
             /\ viewport'[1] # 0
             /\ viewport'[2] # 0
             /\ viewport' = last_call'.color
       /\ (last_call'.op = "Resized" /\ (last_call'.color[1] = 0 \/ last_call'.color[2] = 0))
          => (viewport' = viewport /\ gl_calls' = <<>>)]_vars

\* A notification with a zero height arrived after the viewport had been resized,
\* and left it alone.
C21_Witness ==
    /\ state
    /\ last_call = WindowEvent_Resized(1, 0)
    /\ viewport = <<2, 1>>
    /\ gl_calls = <<>>

\* C29: when the display builder fails or the startup cursor grab is rejected while
\* the driver is resumed, the error is recorded as the exit state and the event
\* loop is asked to exit, although there is no context yet.
C29_ResumeFailureRecorded ==
    [][(last_call'.op = "resumed" /\ last_call'.obj # "")
          => (/\ loop_exit'
              /\ exit_state' = Err(IF last_call'.obj = "display failed"
                                   THEN DuendeError_InternalError
                                   ELSE DuendeError_UnsupportedDevice))]_vars

\* C30: is_key_pressed(k) becomes true only by a keyboard event that reports a
\* press of k; an event that reports its release does not make it true.
C30_OnlyPressesNoted ==
    [][\A k \in Keys :
          (~is_key_pressed(k) /\ KeyPress(k) \in input_events')
          => last_call' = Call("KeyboardInput Pressed", k)]_vars

\* A live object compiled from s whose name is neither stored in the cell nor still
\* the local of a caller about to store it: no handle can ever delete it.
Leaked(s) ==
    {n \in LiveObjects(s) :
        /\ n # instance[s]
        /\ \A c \in Callers : ~(callers[c].pc = "store" /\ callers[c].shader_id = n)}

\* C27: an object of get_shader_handle is lost, its name overwritten in the cell
\* and never deleted, only when the calls of two callers interleaved: two calls
\* one after the other never lose one, and never have two callers past the
\* sole-holder test at once.
C27_LeakOnlyIfInterleaved ==
    \A s \in Shaders :
        /\ Leaked(s) # {} => overlapped
        /\ Cardinality({c \in Callers : callers[c].s = s
                                        /\ callers[c].pc \in {"compile", "store"}}) > 1
              => overlapped

\* Both callers passed the test, the source was compiled twice, and after both
\* handles were dropped one of the two objects is still live.
C27_Witness ==
    /\ overlapped
    /\ InFlight = {}
    /\ free_handles["v_ok"] = 0
    /\ Cardinality(LiveObjects("v_ok")) = 1
    /\ Leaked("v_ok") = LiveObjects("v_ok") \ {instance["v_ok"]}
    /\ Leaked("v_ok") # {}
    /\ last_call = Call("drop_handle", "v_ok")

\* C31: the flush of a tick that returns Ok leaves the command queue empty, and
\* the flush of a tick executes only operations recorded since the flush of the
\* tick before it: none that an earlier flush left in the queue.
C31_NoStaleOperationRuns ==
    [][(last_call'.op = "about_to_wait" /\ state)
          => /\ ret'.ok => command_queue' = <<>>
             /\ stale => RunsOf(gl_calls') = <<>>
             /\ stale' => returned']_vars

\* The flush of a later tick ran the one operation recorded since the tick before
\* it, which had applied the colour, and left the queue empty.
C31_Witness ==
    /\ last_call = Call("about_to_wait", "")
    /\ ret.ok
    /\ ~stale
    /\ gl_calls = <<GlCall("Clear", "", 0), Run(Deferred("A", 0))>>
    /\ command_queue = <<>>

\* C32: a flush that finds a stored error changes nothing: the command queue, the
\* background colour and its dirty flag, the pending output commands, the input
\* set and exit_status are as before, and no GL call is issued.
C32_BlockedFlushChangesNothing ==
    [][(last_call'.op = "draw" /\ ~exit_status.ok)
          => /\ command_queue' = command_queue
             /\ background_color' = background_color
             /\ output_commands' = output_commands
             /\ input_events' = input_events
             /\ exit_status' = exit_status
             /\ gl_calls' = <<>>
             /\ ret' = Err(exit_status.err)]_vars

\* A flush returned the stored error with two operations queued, the colour dirty
\* and a key noted, all still there.
C32_Witness ==
    /\ last_call = Call("draw", "")
    /\ ~ret.ok
    /\ exit_status = ret
    /\ Len(command_queue) = 2
    /\ background_color.has_changed
    /\ background_color.value # DefaultColor
    /\ input_events # {}
    /\ gl_calls = <<>>

\* C33: the colour starts dirty. While set_background_color has never been called,
\* the first flush that proceeds issues the clear-colour call with the default
\* colour, and no later flush issues it again.
C33_ColorStartsDirty ==
    [][(last_call'.op = "draw" /\ exit_status.ok /\ latest_set = NoColor)
          => ClearColorsOf(gl_calls') = IF flushed THEN <<>> ELSE <<ClearColor(DefaultColor)>>]_vars

\* A later flush of a run without any set call: the buffer clear and an operation,
\* no clear-colour call.
C33_Witness ==
    /\ last_call = Call("draw", "")
    /\ ret.ok
    /\ latest_set = NoColor
    /\ background_color = [value |-> DefaultColor, has_changed |-> FALSE]
    /\ Len(gl_calls) = 2
    /\ gl_calls[1] = GlCall("Clear", "", 0)
    /\ gl_calls[2].call = "Run"

\* C34: with Program-owned handles and one thread, between operations a GPU
\* object created for a shader is live exactly when a handle on the shader is alive
\* outside the cache (held by user code, clones included, or by a Program); then it
\* is the only object of that source and the stored identifier is its name.  (The shared
\* count is the Arc's: one for the cell of the static plus one per handle.)
C34_RefCountInvariant ==
    \A s \in Shaders :
        /\ (LiveObjects(s) # {}) <=> (Holders(s) >= 1)
        /\ Holders(s) >= 1 => LiveObjects(s) = {instance[s]}

\* C35: a failed compile_shader leaves no shader object allocated: after a
\* get_shader_handle that returns an error, whichever way the compile failed, the
\* live shader objects are those that were live before the call.
C35_FailedCompileFreesObject ==
    [][\A s \in Shaders :
          (last_call' = Call("get_shader_handle", s) /\ ~ret'.ok) => gl_shaders' = gl_shaders]_vars

\* C36: Game::teardown is called at most once in a run, whatever ends it: a close
\* request, an Exit command, a rejected cursor grab, a flush error, or several of
\* them in one tick.
C36_TeardownAtMostOnce == teardowns <= 1

\* C37: the assertion of resumed, that no window state was present when the new one
\* is stored, holds at every resumed the event loop delivers, a second one
\* included.
C37_ResumeAssertionHolds == ~panicked

\* C38: the input set only grows during a run: no handler of the driver (keyboard
\* event, resize, the tick with its flush and its take of the output commands,
\* close request) removes an event, so a key is_key_pressed reports stays
\* reported in every later state.
C38_InputOnlyGrows ==
    [][/\ input_events \subseteq input_events'
       /\ \A k \in Keys : is_key_pressed(k) => KeyPress(k) \in input_events']_vars

\* A tick has just run in a resized window with both keys noted before it.
C38_Witness ==
    /\ last_call.op = "about_to_wait"
    /\ state
    /\ steps # <<>>
    /\ viewport # InitialSize
    /\ is_key_pressed("Escape")
    /\ is_key_pressed("Enter")

\* C39: cursor-grab polarity.  A tick that applies CursorGrab commands of one
\* polarity, none of them rejected by the window, leaves the window in a grabbing
\* mode (Confined or Locked) when the commands enable the grab and in mode None
\* when they release it.
C39_CursorGrabPolarity ==
    [][\A enable \in BOOLEAN :
         (/\ last_call'.op = "about_to_wait"
          /\ state
          /\ \E i \in DOMAIN taken' : taken'[i] = Command("CursorGrab", enable)
          /\ \A i \in DOMAIN taken' : taken'[i] # Command("CursorGrab", ~enable)
          /\ \A i \in DOMAIN steps' : steps'[i] # "grab rejected")
           => IF enable THEN cursor_grab' \in {"Confined", "Locked"}
              ELSE cursor_grab' = "None"]_vars

============================================================================
